---- MODULE Spec2Model ----
(***************************************************************************)
(* Model of PhotALPs_Jet (src/conversion_Jet.py): photon-ALP conversion in *)
(* an AGN jet.  The object's attributes are the variables; update_params,  *)
(* SetDomainN and analytical_U are the operations.                         *)
(*                                                                         *)
(* Numbers.  A float is carried exactly: a rational n/d, optionally times  *)
(* sqrt(2) (k = 1), or one of the IEEE specials nan, +inf, -inf.  An angle *)
(* (Psi, alph) is carried by its cosine and sine, which is all the code    *)
(* ever takes of it.  A phase argument x of exp(1j*x) is counted in        *)
(* quarter turns (one unit = pi/2), so exp(1j*x) = i^x exactly.  Rounding  *)
(* of the floating-point operations is not modelled; nan and inf are.      *)
(*                                                                         *)
(* Arrays.  A numpy vector of length Nd is a sequence 1..Nd; element k of  *)
(* the sequence is the code's index k-1.  A (3,3,Nd) array T is T[a][b][k] *)
(* with a, b in 0..2.                                                      *)
(*                                                                         *)
(* Runtime.  The source is Python 2 with the numpy of its time: math.ceil  *)
(* returns a float (nan and inf pass through it), np.linspace with a       *)
(* non-positive count returns an empty array, int(nan) and int(inf) raise, *)
(* np.zeros with a negative dimension raises.                              *)
(***************************************************************************)
EXTENDS Integers, Sequences, FiniteSets, TLC

\* the largest domain count (in absolute value) the configurations reach
MaxNd == 6

(***************************************************************************)
(* Floats                                                                  *)
(***************************************************************************)
RECURSIVE GCD(_, _)
GCD(a, b) == IF b = 0 THEN a ELSE GCD(b, a % b)

Abs(x) == IF x < 0 THEN -x ELSE x

Sgn(x) == IF x < 0 THEN -1 ELSE IF x > 0 THEN 1 ELSE 0

NaN == [t |-> "nan", n |-> 0, d |-> 1, k |-> 0]

PInf == [t |-> "pinf", n |-> 0, d |-> 1, k |-> 0]

NInf == [t |-> "ninf", n |-> 0, d |-> 1, k |-> 0]

\* the float (n/d) * sqrt(2)^k, in lowest terms (d # 0)
Surd(n, d, k) ==
  LET g == GCD(Abs(n), Abs(d))
      s == IF d < 0 THEN -1 ELSE 1
  IN  IF n = 0 THEN [t |-> "num", n |-> 0, d |-> 1, k |-> 0]
      ELSE [t |-> "num", n |-> s * (n \div g), d |-> s * (d \div g), k |-> k]

Rat(n, d) == Surd(n, d, 0)

Num(n) == Surd(n, 1, 0)

IsNum(x) == x.t = "num"

IsZero(x) == x.t = "num" /\ x.n = 0

\* sign of a float: -1, 0, 1 (nan has none; asked only of non-nan values)
FSgn(x) == IF x.t = "pinf" THEN 1 ELSE IF x.t = "ninf" THEN -1 ELSE Sgn(x.n)

FInf(s) == IF s > 0 THEN PInf ELSE NInf

FNeg(x) ==
  IF x.t = "nan" THEN NaN
  ELSE IF x.t = "pinf" THEN NInf
  ELSE IF x.t = "ninf" THEN PInf
  ELSE Surd(-x.n, x.d, x.k)

\* x * y; sqrt(2) * sqrt(2) = 2; 0 * inf = nan, nan * anything = nan
FMul(x, y) ==
  IF x.t = "nan" \/ y.t = "nan" THEN NaN
  ELSE IF ~IsNum(x) \/ ~IsNum(y)
       THEN IF IsZero(x) \/ IsZero(y) THEN NaN ELSE FInf(FSgn(x) * FSgn(y))
  ELSE IF x.k + y.k = 2 THEN Surd(2 * x.n * y.n, x.d * y.d, 0)
  ELSE Surd(x.n * y.n, x.d * y.d, x.k + y.k)

\* x + y; the two must be commensurable (both rational or both multiples of
\* sqrt(2)) unless one is zero; inf - inf = nan
FAdd(x, y) ==
  IF x.t = "nan" \/ y.t = "nan" THEN NaN
  ELSE IF ~IsNum(x) /\ ~IsNum(y) THEN (IF x.t = y.t THEN x ELSE NaN)
  ELSE IF ~IsNum(x) THEN x
  ELSE IF ~IsNum(y) THEN y
  ELSE IF IsZero(x) THEN y
  ELSE IF IsZero(y) THEN x
  ELSE LET k == CHOOSE j \in {x.k} : j = y.k
           l == (x.d \div GCD(x.d, y.d)) * y.d
       IN  Surd(x.n * (l \div x.d) + y.n * (l \div y.d), l, k)

FSub(x, y) == FAdd(x, FNeg(y))

\* numpy float64 division: x/0 = +-inf, 0/0 = nan (a warning, no exception)
FDiv(x, y) ==
  IF x.t = "nan" \/ y.t = "nan" THEN NaN
  ELSE IF ~IsNum(x) THEN (IF IsNum(y) THEN (IF FSgn(y) < 0 THEN FNeg(x) ELSE x) ELSE NaN)
  ELSE IF ~IsNum(y) THEN Num(0)
  ELSE IF IsZero(y) THEN (IF IsZero(x) THEN NaN ELSE FInf(FSgn(x)))
  ELSE IF y.k = 1 THEN FMul(x, Surd(y.d, 2 * y.n, 1))
  ELSE FMul(x, Surd(y.d, y.n, 0))

FLess(x, y) == x.n * y.d < y.n * x.d

\* the integer square root of n >= 0, by bisection between lo and hi
RECURSIVE SqrtBetween(_, _, _)
SqrtBetween(n, lo, hi) ==
  IF lo >= hi THEN lo
  ELSE LET mid == (lo + hi + 1) \div 2
           below == mid * mid <= n
       IN  SqrtBetween(n, IF below THEN mid ELSE lo, IF below THEN hi ELSE mid - 1)

SqrtFloor(n) == SqrtBetween(n, 0, IF n < 46340 THEN n ELSE 46340)

IsSquare(n) == SqrtFloor(n) * SqrtFloor(n) = n

\* the exact root of a perfect square (no value otherwise)
ISqrt(n) == CHOOSE q \in {SqrtFloor(n)} : q * q = n

\* np.sqrt of a non-negative rational whose root is rational or a rational
\* multiple of sqrt(2)
FSqrt(x) ==
  IF x.t = "nan" THEN NaN
  ELSE IF x.t = "pinf" THEN PInf
  ELSE LET rn == SqrtFloor(x.n)
           rd == SqrtFloor(x.d)
           r2n == SqrtFloor(2 * x.n)
           r2d == SqrtFloor(2 * x.d)
       IN  IF rn * rn = x.n /\ rd * rd = x.d THEN Surd(rn, rd, 0)
           ELSE IF r2n * r2n = 2 * x.n /\ rd * rd = x.d THEN Surd(r2n, 2 * rd, 1)
           ELSE Surd(rn, CHOOSE q \in {r2d} : rn * rn = x.n /\ q * q = 2 * x.d, 1)

\* x ** 2.
FSq(x) == FMul(x, x)

RECURSIVE IPow(_, _)
IPow(b, e) == IF e = 0 THEN 1 ELSE b * IPow(b, e - 1)

\* b ** (en/ed) for a positive rational b and ed in {1, 2}, exact
FPow(b, e) ==
  LET rn == IF e.d = 1 THEN b.n ELSE ISqrt(b.n)
      rd == IF e.d = 1 THEN b.d ELSE ISqrt(b.d)
  IN  IF e.n >= 0 THEN Rat(IPow(rn, e.n), IPow(rd, e.n))
      ELSE Rat(IPow(rd, -e.n), IPow(rn, -e.n))

(***************************************************************************)
(* Complex numbers (np.complex): a real and an imaginary float             *)
(***************************************************************************)
Cplx(re, im) == [re |-> re, im |-> im]

CZero == Cplx(Num(0), Num(0))

COne == Cplx(Num(1), Num(0))

\* a float stored into a complex array
CReal(x) == Cplx(x, Num(0))

CAdd(x, y) == Cplx(FAdd(x.re, y.re), FAdd(x.im, y.im))

\* (a+bj)(c+dj) = (ac - bd) + (ad + bc)j, componentwise as the hardware does
\* it: a nan in either factor reaches both parts, also against a zero
CMul(x, y) ==
  Cplx(FSub(FMul(x.re, y.re), FMul(x.im, y.im)),
       FAdd(FMul(x.re, y.im), FMul(x.im, y.re)))

\* |x|^2
CAbs2(x) == FAdd(FSq(x.re), FSq(x.im))

\* np.exp(1.j * x) for a phase x counted in quarter turns: i^x
Exp1j(x) ==
  IF ~IsNum(x) THEN Cplx(NaN, NaN)
  ELSE LET q == CHOOSE j \in {x.n} : x.d = 1 /\ x.k = 0
           r == q % 4
       IN  IF r = 0 THEN Cplx(Num(1), Num(0))
           ELSE IF r = 1 THEN Cplx(Num(0), Num(1))
           ELSE IF r = 2 THEN Cplx(Num(-1), Num(0))
           ELSE Cplx(Num(0), Num(-1))

(***************************************************************************)
(* Angles: an angle is its (cos, sin)                                      *)
(***************************************************************************)
Angle(c, s) == [c |-> c, s |-> s]

\* np.cos, np.sin
Cos(a) == a.c

Sin(a) == a.s

\* 0.5 * np.arctan(t): the angle alpha in [-pi/4, pi/4] with tan(2 alpha) = t.
\* cos(2 alpha) = 1/sqrt(1+t^2) (0 at t = +-inf), and by the half-angle
\* formulas cos(alpha) = sqrt((1+cos 2a)/2), sin(alpha) = sgn(t) sqrt((1-cos 2a)/2).
\* arctan(nan) = nan.
HalfArctan(t) ==
  IF t.t = "nan" THEN Angle(NaN, NaN)
  ELSE LET c2 == IF IsNum(t) THEN FDiv(Num(1), FSqrt(FAdd(Num(1), FSq(t)))) ELSE Num(0)
           half == Rat(1, 2)
           ca == FSqrt(FMul(half, FAdd(Num(1), c2)))
           sa == FSqrt(FMul(half, FSub(Num(1), c2)))
       IN  Angle(ca, IF FSgn(t) < 0 THEN FNeg(sa) ELSE sa)

(***************************************************************************)
(* Powers of sens.  The grid's radii are R_BLR * sens ** e with exponents  *)
(* e that need not have an exact root, so a quantity c * b ** e is carried *)
(* as (c, b, e) and evaluated only where the code needs its value.         *)
(***************************************************************************)
Pw(c, b, e) == [c |-> c, b |-> b, e |-> e]

\* x * v and v / x for a float x
PwScale(x, v) == Pw(FMul(x, v.c), v.b, v.e)

\* v ** q for an integral float q
PwRaise(v, q) == Pw(FPow(v.c, q), v.b, FMul(v.e, q))

\* the float c * b ** e
PwVal(v) == FMul(v.c, FPow(v.b, v.e))

(***************************************************************************)
(* numpy helpers                                                           *)
(***************************************************************************)
\* int(x) of a float: raises on nan (ValueError) and on inf (OverflowError)
IntRaises(x) == ~IsNum(x)

\* np.linspace(start, stop, num): num = int(num); no samples for num <= 0,
\* [start] for num = 1, else start + j * (stop - start)/(num - 1), j = 0..num-1
linspace(start, stop, num) ==
  IF num.n <= 0 THEN << >>
  ELSE IF num.n = 1 THEN << start >>
  ELSE LET step == FDiv(FSub(stop, start), Num(num.n - 1))
       IN  [j \in 1..num.n |->
              IF j = num.n THEN stop ELSE FAdd(FMul(Num(j - 1), step), start)]

\* np.ones(N) * x, np.zeros((3,3,N), np.complex)
ones(N, x) == [k \in 1..N |-> x]

zeros33(N) == [a \in 0..2 |-> [b \in 0..2 |-> [k \in 1..N |-> CZero]]]

\* N >= -p * ln(ratio) / ln(sens) for sens in (0,1) or (1,inf): that is
\* ratio**p <= sens**(-N) when sens < 1, and ratio**p >= sens**(-N) when sens > 1
AtLeast(N, p, ratio, sens) ==
  IF FLess(sens, Num(1))
  THEN ~FLess(FPow(sens, Num(0 - N)), FPow(ratio, Num(p)))
  ELSE ~FLess(FPow(ratio, Num(p)), FPow(sens, Num(0 - N)))

\* the least such N, searched from N outward
RECURSIVE LeastN(_, _, _, _)
LeastN(N, p, ratio, sens) ==
  IF AtLeast(N, p, ratio, sens) /\ ~AtLeast(N - 1, p, ratio, sens) THEN N
  ELSE LeastN(CHOOSE M \in {IF AtLeast(N, p, ratio, sens) THEN N - 1 ELSE N + 1} :
                M >= 0 - MaxNd /\ M <= MaxNd,
              p, ratio, sens)

\* math.ceil(-1. * p * np.log(ratio) / np.log(sens)) for ratio > 0.
\* np.log(1) = 0, np.log(0) = -inf, np.log(x < 0) = nan; the quotient follows
\* the float rules.  For sens in (0,1) or (1,inf) the quotient y is finite and
\* ceil(y) is the least integer N with N >= y.
CeilLogQuot(p, ratio, sens) ==
  IF FSgn(sens) < 0 THEN NaN
  ELSE IF IsZero(sens) THEN Num(0)
  ELSE IF sens = Num(1)
       THEN IF ratio = Num(1) THEN NaN
            ELSE IF FLess(Num(1), ratio) THEN NInf ELSE PInf
  ELSE Num(LeastN(0, p, ratio, sens))

(***************************************************************************)
(* Vectors (numpy arrays of length Nd) and 3x3 matrices                    *)
(***************************************************************************)
VMul(x, y) == [k \in 1..Len(x) |-> FMul(x[k], y[k])]

VAdd(x, y) == [k \in 1..Len(x) |-> FAdd(x[k], y[k])]

VSub(x, y) == [k \in 1..Len(x) |-> FSub(x[k], y[k])]

\* scalar * array
VScale(a, x) == [k \in 1..Len(x) |-> FMul(a, x[k])]

\* a float array stored into a slice of a complex array
VCplx(x) == [k \in 1..Len(x) |-> CReal(x[k])]

\* A[:,:,i], i counted from 0
Slice(A, i) == [a \in 0..2 |-> [b \in 0..2 |-> A[a][b][i + 1]]]

\* np.dot(X, Y) of two 3x3 complex matrices
Dot(X, Y) ==
  [a \in 0..2 |-> [b \in 0..2 |->
     CAdd(CAdd(CMul(X[a][0], Y[0][b]), CMul(X[a][1], Y[1][b])), CMul(X[a][2], Y[2][b]))]]

Zero33 == [a \in 0..2 |-> [b \in 0..2 |-> CZero]]

(***************************************************************************)
(* The physical-formula collaborator (module deltas, imported at line 19,   *)
(* not in src/).  Four pure elementwise functions.  The stand-ins below    *)
(* are fixed functions of their arguments, with values on a lattice (in    *)
(* pc^-1, multiples of 9/8) on which roots, mixing angles and phases are   *)
(* exact: a plasma term that takes one of two levels with the density, a   *)
(* QED term present where the field is strong, a coupling term             *)
(* proportional to g and a mass term proportional to m^2/E.  With them     *)
(* Dpar - Da is 63/8 in a domain of strong field, -63/8 in a domain of low *)
(* density and 0 in between, so that the mixing angle differs from domain  *)
(* to domain and the degenerate case Dpar = Da of line 152 occurs.         *)
(***************************************************************************)
Delta_pl_kpc(n, E) ==
  [k \in 1..Len(n) |->
     IF FLess(Rat(1000, 6561), PwVal(n[k])) THEN FDiv(Num(-7875), E) ELSE FDiv(Num(-15750), E)]

Delta_QED_kpc(B, E) ==
  [k \in 1..Len(B) |->
     IF FLess(Rat(1000000, 9), PwVal(B[k])) THEN FMul(Num(2250), E) ELSE Num(0)]

Delta_ag_kpc(g, B) == [k \in 1..Len(B) |-> FMul(Num(13500), g)]

Delta_a_kpc(m, E) == FDiv(FMul(Num(-7875), FMul(m, m)), E)

(***************************************************************************)
(* The object                                                              *)
(***************************************************************************)
VARIABLES
  cfg,      \* R_BLR, E, g, m, n, Rmax, B, s, p, sens, Psi
  Nd, Lcoh, r, Br, nr,
  T1, T2, T3, Un, Psin,
  Dperp, Dpar, Dag, Da, alph, Dosc, EW1, EW2, EW3,
  attrs,    \* the mixing attributes that exist on the object
  pc,       \* "idle", or "loop": SetDomainN is in its multiplication loop
  i,        \* the loop's next index
  U,        \* the loop's local U: [bound, m]
  last,     \* the last operation that ended and how: [op, exc]
  ret       \* the matrix the last SetDomainN returned: [bound, m]

grid == << Nd, Lcoh, r, Br, nr >>

mats == << T1, T2, T3, Un, Psin >>

mixing == << Dperp, Dpar, Dag, Da, alph, Dosc, EW1, EW2, EW3, attrs >>

loopv == << pc, i, U >>

vars == << cfg, grid, mats, mixing, loopv, last, ret >>

\* the values update_params draws the configuration from; the other
\* attributes keep their defaults
RmaxSet == {Num(1), Num(3), Num(20), Num(100)}

sensSet == {Rat(1, 9), Num(9), Num(1)}

PsiSet == {Angle(Num(1), Num(0)), Angle(Rat(4, 5), Rat(3, 5))}

gSet == {Num(0), Num(1)}

Values ==
  [Rmax |-> RmaxSet, sens |-> sensSet, Psi |-> PsiSet, g |-> gSet]

\* __init__'s kwargs.setdefault(...), lines 95-105, on the model's scale
Defaults ==
  [R_BLR |-> Num(1), E |-> Num(1), g |-> Num(1), m |-> Num(1), n |-> Num(1),
   Rmax |-> Num(20), B |-> Num(1), s |-> 2, p |-> 1, sens |-> Rat(1, 9),
   Psi |-> Angle(Num(1), Num(0))]

Unbound == [bound |-> FALSE, m |-> Zero33]

Bound(M) == [bound |-> TRUE, m |-> M]

\* self.Bf, self.nf (lines 116-117), closures over the object's attributes
Bf(c, rr) == [k \in 1..Len(rr) |-> PwScale(c.B, PwRaise(PwScale(FDiv(Num(1), c.R_BLR), rr[k]), Num(0 - c.p)))]

nf(c, rr) == [k \in 1..Len(rr) |-> PwScale(c.n, PwRaise(PwScale(FDiv(Num(1), c.R_BLR), rr[k]), Num(0 - c.s)))]

\* line 119
NdOf(c) == CeilLogQuot(c.p, FDiv(c.Rmax, c.R_BLR), c.sens)

\* line 120
LcohOf(c, N) ==
  LET ls == linspace(Num(1), N, N)
  IN  [k \in 1..Len(ls) |->
         PwScale(FSub(Num(1), c.sens),
                 PwScale(c.R_BLR, Pw(Num(1), c.sens, FDiv(FNeg(ls[k]), Num(c.p)))))]

\* line 121
rOf(c, N) ==
  LET ls == linspace(Num(0), N, N)
  IN  [k \in 1..Len(ls) |->
         PwScale(c.R_BLR, Pw(Num(1), c.sens, FDiv(FNeg(ls[k]), Num(c.p))))]


(***************************************************************************)
(* update_params, lines 111-133                                            *)
(***************************************************************************)
\* self.__dict__.update(kwargs), line 114
Merge(c, kwargs) ==
  [key \in DOMAIN c |-> IF key \in DOMAIN kwargs THEN kwargs[key] ELSE c[key]]

\* update_params from line 119 on, for the merged attributes c and the
\* domain count N line 119 computes: where it ends (exc = "" when it
\* returns), the last line whose assignment it reached, and what it assigned.
\* Line 120 raises when int(Nd) does (Nd nan or inf); line 127 raises when
\* Nd < 0, after lines 120-125.
OutcomeAt(c, N) ==
  IF IntRaises(N)
  THEN [exc |-> IF N.t = "nan" THEN "ValueError" ELSE "OverflowError",
        reached |-> 119, Nd |-> N]
  ELSE [exc |-> IF N.n < 0 THEN "ValueError" ELSE "",
        reached |-> IF N.n < 0 THEN 125 ELSE 132,
        Nd |-> N, Lcoh |-> LcohOf(c, N), r |-> rOf(c, N),
        Br |-> Bf(c, rOf(c, N)), nr |-> nf(c, rOf(c, N)),
        T |-> zeros33(IF N.n < 0 THEN 0 ELSE N.n),
        Psin |-> ones(IF N.n < 0 THEN 0 ELSE N.n, c.Psi)]

UpdateOutcome(c) == OutcomeAt(c, NdOf(c))

\* update_params that fills Psin from the Psi the object held before the call
Assigned_oldPsi(c, o) ==
  /\ cfg' = c
  /\ Nd' = o.Nd
  /\ IF o.reached >= 125
     THEN /\ Lcoh' = o.Lcoh
          /\ r' = o.r
          /\ Br' = o.Br
          /\ nr' = o.nr
     ELSE UNCHANGED << Lcoh, r, Br, nr >>
  /\ IF o.reached >= 132
     THEN /\ T1' = o.T
          /\ T2' = o.T
          /\ T3' = o.T
          /\ Un' = o.T
          /\ Psin' = ones(Len(o.Psin), cfg.Psi)
     ELSE UNCHANGED mats
  /\ last' = [op |-> "update_params", exc |-> o.exc]

\* the assignments of lines 114-132 that outcome o reached
Assigned(c, o) ==
  /\ cfg' = c
  /\ Nd' = o.Nd
  /\ IF o.reached >= 125
     THEN /\ Lcoh' = o.Lcoh
          /\ r' = o.r
          /\ Br' = o.Br
          /\ nr' = o.nr
     ELSE UNCHANGED << Lcoh, r, Br, nr >>
  /\ IF o.reached >= 132
     THEN /\ T1' = o.T
          /\ T2' = o.T
          /\ T3' = o.T
          /\ Un' = o.T
          /\ Psin' = o.Psin
     ELSE UNCHANGED mats
  /\ last' = [op |-> "update_params", exc |-> o.exc]

update_params(kwargs) ==
  /\ pc = "idle"
  /\ Assigned(Merge(cfg, kwargs), UpdateOutcome(Merge(cfg, kwargs)))
  /\ ret' = Unbound
  /\ UNCHANGED << mixing, loopv >>

(***************************************************************************)
(* SetDomainN and its helpers, lines 135-293                               *)
(***************************************************************************)
\* __setDeltas, lines 148-150: the three arrays taken from the collaborator
DperpOf(c, nrr, Brr) ==
  VScale(Rat(1, 1000),
         VAdd(Delta_pl_kpc([k \in 1..Len(nrr) |-> PwScale(Num(1000), nrr[k])], c.E),
              VScale(Num(2), Delta_QED_kpc([k \in 1..Len(Brr) |-> PwScale(Num(1000000), Brr[k])], c.E))))

DparOf(c, nrr, Brr) ==
  VScale(Rat(1, 1000),
         VAdd(Delta_pl_kpc([k \in 1..Len(nrr) |-> PwScale(Num(1000), nrr[k])], c.E),
              VScale(Rat(7, 2), Delta_QED_kpc([k \in 1..Len(Brr) |-> PwScale(Num(1000000), Brr[k])], c.E))))

DagOf(c, Brr) ==
  VScale(Rat(1, 1000), Delta_ag_kpc(c.g, [k \in 1..Len(Brr) |-> PwScale(Num(1000000), Brr[k])]))

\* line 151 (N >= 0)
DaOf(c, N) == VScale(Rat(1, 1000), ones(N, Delta_a_kpc(c.m, c.E)))

\* line 152
alphOf(dag, dpar, da) ==
  [k \in 1..Len(dag) |-> HalfArctan(FDiv(FMul(Num(2), dag[k]), FSub(dpar[k], da[k])))]

\* line 153
DoscOf(dag, dpar, da) ==
  [k \in 1..Len(dag) |->
     FSqrt(FAdd(FSq(FSub(dpar[k], da[k])), FMul(Num(4), FSq(dag[k]))))]

\* lines 172-173
EW2Of(dpar, da, dosc) == VScale(Rat(1, 2), VSub(VAdd(dpar, da), dosc))

EW3Of(dpar, da, dosc) == VScale(Rat(1, 2), VAdd(VAdd(dpar, da), dosc))

\* np.cos, np.sin of an array of angles
CosV(x) == [k \in 1..Len(x) |-> Cos(x[k])]

SinV(x) == [k \in 1..Len(x) |-> Sin(x[k])]

\* T[a,b,:] = v for a float array v, and T[a,b,:] = T[a2,b2]
Assign(T, a, b, v) == [T EXCEPT ![a][b] = VCplx(v)]

Copy(T, a, b, a2, b2) == [T EXCEPT ![a][b] = T[a2][b2]]

\* __setT1n, lines 189-194, on the array T
setT1n(T, psin) ==
  Assign(Copy(Assign(T, 0, 0, VMul(CosV(psin), CosV(psin))),
              1, 0, 0, 1),
         1, 1, VMul(SinV(psin), SinV(psin)))

\* a __setT2n with line 214 (T2[0,1,:] = s*c*sa*sa) live
setT2n_topRow(T, psin, al) ==
  Assign(Copy(Copy(Assign(Assign(Copy(Assign(T, 0, 1, VMul(VMul(VMul(SinV(psin), CosV(psin)), SinV(al)), SinV(al))),
                                      1, 0, 0, 1),
                                 1, 1, VMul(VMul(VMul(CosV(psin), CosV(psin)), SinV(al)), SinV(al))),
                          1, 2, VMul(VMul(VScale(Num(-1), CosV(psin)), CosV(al)), SinV(al))),
                   2, 0, 0, 2),
              2, 1, 1, 2),
         2, 2, VMul(CosV(al), CosV(al)))

\* __setT2n, lines 209-223
setT2n(T, psin, al) ==
  Assign(Copy(Copy(Assign(Assign(Copy(T, 1, 0, 0, 1),
                                 1, 1, VMul(VMul(VMul(CosV(psin), CosV(psin)), SinV(al)), SinV(al))),
                          1, 2, VMul(VMul(VScale(Num(-1), CosV(psin)), CosV(al)), SinV(al))),
                   2, 0, 0, 2),
              2, 1, 1, 2),
         2, 2, VMul(CosV(al), CosV(al)))

\* a __setT3n whose (1,2) entry is c*ca, without the factor sin(alph)
setT3n_noSin(T, psin, al) ==
  Assign(Copy(Copy(Assign(Assign(Copy(T, 1, 0, 0, 1),
                                 1, 1, VMul(VMul(VMul(CosV(psin), CosV(psin)), CosV(al)), CosV(al))),
                          1, 2, VMul(CosV(psin), CosV(al))),
                   2, 0, 0, 2),
              2, 1, 1, 2),
         2, 2, VMul(SinV(al), SinV(al)))

\* __setT3n, lines 238-252
setT3n(T, psin, al) ==
  Assign(Copy(Copy(Assign(Assign(Copy(T, 1, 0, 0, 1),
                                 1, 1, VMul(VMul(VMul(CosV(psin), CosV(psin)), CosV(al)), CosV(al))),
                          1, 2, VMul(VMul(CosV(psin), SinV(al)), CosV(al))),
                   2, 0, 0, 2),
              2, 1, 1, 2),
         2, 2, VMul(SinV(al), SinV(al)))

\* np.exp(1.j * EW * Lcoh), one phase per domain
Phase(ew, lcoh) == [k \in 1..Len(ew) |-> Exp1j(FMul(ew[k], PwVal(lcoh[k])))]

\* __setUn, lines 267-269: the phases broadcast over the last axis
setUn(ew1, ew2, ew3, lcoh, t1, t2, t3) ==
  [a \in 0..2 |-> [b \in 0..2 |-> [k \in 1..Len(lcoh) |->
     CAdd(CAdd(CMul(Phase(ew1, lcoh)[k], t1[a][b][k]), CMul(Phase(ew2, lcoh)[k], t2[a][b][k])),
          CMul(Phase(ew3, lcoh)[k], t3[a][b][k]))]]]

\* a loop body that multiplies the new domain on the left
LoopBody_onLeft(u, un, j) == IF j = 0 THEN Slice(un, j) ELSE Dot(Slice(un, j), u)

\* a loop body that also multiplies in the first pass
LoopBody_fromIdentity(u, un, j) ==
  IF j = 0 THEN Dot(Slice(un, j), Slice(un, j)) ELSE Dot(u, Slice(un, j))

\* one pass of the loop body, lines 289-292: the local U after iteration j
LoopBody(u, un, j) == IF j = 0 THEN Slice(un, j) ELSE Dot(u, Slice(un, j))

\* lines 282-286 once lines 148-150 have produced dperp, dpar and dag.
\* __setDeltas raises at line 151 when int(Nd) raises or Nd < 0 (np.ones of a
\* negative length), after Dperp, Dpar and Dag are assigned.
Setup(dperp, dpar, dag) ==
  /\ pc = "idle"
  /\ Dperp' = dperp
  /\ Dpar' = dpar
  /\ Dag' = dag
  /\ IF IntRaises(Nd) \/ Nd.n < 0
     THEN /\ attrs' = attrs \cup {"Dperp", "Dpar", "Dag"}
          /\ last' = [op |-> "SetDomainN",
                      exc |-> IF Nd.t \in {"pinf", "ninf"} THEN "OverflowError" ELSE "ValueError"]
          /\ UNCHANGED << Da, alph, Dosc, EW1, EW2, EW3, mats, loopv >>
     ELSE /\ Da' = DaOf(cfg, Nd.n)
          /\ alph' = alphOf(dag, dpar, Da')
          /\ Dosc' = DoscOf(dag, dpar, Da')
          /\ EW1' = dperp
          /\ EW2' = EW2Of(dpar, Da', Dosc')
          /\ EW3' = EW3Of(dpar, Da', Dosc')
          /\ attrs' = {"Dperp", "Dpar", "Dag", "Da", "alph", "Dosc", "EW1", "EW2", "EW3"}
          /\ T1' = setT1n(T1, Psin)
          /\ T2' = setT2n(T2, Psin, alph')
          /\ T3' = setT3n(T3, Psin, alph')
          /\ Un' = setUn(EW1', EW2', EW3', Lcoh, T1', T2', T3')
          /\ Psin' = Psin
          /\ pc' = "loop"
          /\ i' = 0
          /\ U' = Unbound
          /\ last' = last
  /\ ret' = Unbound
  /\ UNCHANGED << cfg, grid >>

\* a SetDomainN that keeps the Delta arrays of an earlier pass when they have
\* the grid's length
SetDomainN_setup_cached ==
  IF "Dag" \in attrs /\ IsNum(Nd) /\ Len(Dag) = Nd.n
  THEN Setup(Dperp, Dpar, Dag)
  ELSE Setup(DperpOf(cfg, nr, Br), DparOf(cfg, nr, Br), DagOf(cfg, Br))

\* SetDomainN up to the loop, lines 282-286
SetDomainN_setup == Setup(DperpOf(cfg, nr, Br), DparOf(cfg, nr, Br), DagOf(cfg, Br))

\* one iteration of "for i in range(self.Un.shape[2])", lines 288-292
SetDomainN_loop ==
  /\ pc = "loop"
  /\ i < Len(Un[0][0])
  /\ U' = Bound(LoopBody(U.m, Un, i))
  /\ i' = i + 1
  /\ UNCHANGED << cfg, grid, mats, mixing, pc, last, ret >>

\* "return U", line 293: UnboundLocalError when the loop never ran
SetDomainN_return ==
  /\ pc = "loop"
  /\ i = Len(Un[0][0])
  /\ ret' = U
  /\ last' = [op |-> "SetDomainN", exc |-> IF U.bound THEN "" ELSE "UnboundLocalError"]
  /\ pc' = "idle"
  /\ i' = 0
  /\ U' = Unbound
  /\ UNCHANGED << cfg, grid, mats, mixing >>

\* analytical_U, lines 305-313: reads R_BLR, Rmax, B, p, g and assigns no
\* attribute, so the object is as it was.  Its matrix (cos x, i sin x with x
\* holding ln(Rmax/R_BLR)) is not carried.
analytical_U ==
  /\ pc = "idle"
  /\ UNCHANGED vars

\* the object update_params leaves when called on a new object (no mixing
\* attribute exists yet) and ending with outcome o
Constructed(c, o) ==
  /\ cfg = c
  /\ Nd = o.Nd
  /\ Lcoh = o.Lcoh
  /\ r = o.r
  /\ Br = o.Br
  /\ nr = o.nr
  /\ T1 = o.T
  /\ T2 = o.T
  /\ T3 = o.T
  /\ Un = o.T
  /\ Psin = o.Psin
  /\ Dperp = << >>
  /\ Dpar = << >>
  /\ Dag = << >>
  /\ Da = << >>
  /\ alph = << >>
  /\ Dosc = << >>
  /\ EW1 = << >>
  /\ EW2 = << >>
  /\ EW3 = << >>
  /\ attrs = {}
  /\ pc = "idle"
  /\ i = 0
  /\ U = Unbound
  /\ last = [op |-> "__init__", exc |-> ""]
  /\ ret = Unbound

\* PhotALPs_Jet(): __init__ with no arguments, lines 95-107
Init == Constructed(Defaults, UpdateOutcome(Defaults))

\* a call update_params(key = v)
Update == \E key \in DOMAIN Values : \E v \in Values[key] : update_params(key :> v)

Next ==
  \/ Update
  \/ SetDomainN_setup
  \/ SetDomainN_loop
  \/ SetDomainN_return
  \/ analytical_U

Spec == Init /\ [][Next]_vars

(***************************************************************************)
(* Properties                                                              *)
(***************************************************************************)
\* SetDomainN ran to its return statement and returned a matrix, and nothing
\* has changed the object since
Returned == pc = "idle" /\ last = [op |-> "SetDomainN", exc |-> ""]

\* the mixing arrays and propagators of the object are those of the running
\* or just finished SetDomainN
InPass == pc = "loop" \/ Returned

ZeroAngle == Angle(Num(1), Num(0))

\* Un[0] . Un[1] ... Un[j], associated as written from the left
RECURSIVE InnerFirst(_, _)
InnerFirst(un, j) ==
  IF j = 0 THEN Slice(un, 0) ELSE Dot(InnerFirst(un, j - 1), Slice(un, j))

\* Un[j] . Un[j-1] ... Un[0]
RECURSIVE OuterFirst(_, _)
OuterFirst(un, j) ==
  IF j = 0 THEN Slice(un, 0) ELSE Dot(Slice(un, j), OuterFirst(un, j - 1))

\* x[1] * x[2] * ... * x[j] for a sequence of complex numbers
RECURSIVE ProdTo(_, _)
ProdTo(x, j) == IF j = 0 THEN COne ELSE CMul(ProdTo(x, j - 1), x[j])

\* what a new object holding configuration c computes in one SetDomainN:
\* the mixing arrays from the outcome o of update_params, then the propagators
MixFrom(dperp, dpar, dag, da) ==
  [Dperp |-> dperp, Dpar |-> dpar, Dag |-> dag, Da |-> da,
   alph |-> alphOf(dag, dpar, da), Dosc |-> DoscOf(dag, dpar, da),
   EW1 |-> dperp,
   EW2 |-> EW2Of(dpar, da, DoscOf(dag, dpar, da)),
   EW3 |-> EW3Of(dpar, da, DoscOf(dag, dpar, da))]

FreshMix(c, o) ==
  MixFrom(DperpOf(c, o.nr, o.Br), DparOf(c, o.nr, o.Br), DagOf(c, o.Br), DaOf(c, o.Nd.n))

UnFrom(mx, o) ==
  setUn(mx.EW1, mx.EW2, mx.EW3, o.Lcoh,
        setT1n(o.T, o.Psin), setT2n(o.T, o.Psin, mx.alph), setT3n(o.T, o.Psin, mx.alph))

FreshUn(c) == UnFrom(FreshMix(c, UpdateOutcome(c)), UpdateOutcome(c))

StoredMix ==
  [Dperp |-> Dperp, Dpar |-> Dpar, Dag |-> Dag, Da |-> Da, alph |-> alph,
   Dosc |-> Dosc, EW1 |-> EW1, EW2 |-> EW2, EW3 |-> EW3]

OffDiagonal == {ab \in (0..2) \X (0..2) : ab[1] # ab[2]}

\* C1 (as the code has it): the matrix SetDomainN returns is
\* Un[0] . Un[1] ... Un[Nd-1]: the innermost domain is the leftmost factor
\* and each further domain is multiplied on the right.
C1_InnermostLeftmost ==
  Returned => ret = Bound(InnerFirst(Un, Len(Un[0][0]) - 1))

\* C1 (as stated): the matrix SetDomainN returns is Un[Nd-1] ... Un[1] . Un[0],
\* the innermost domain being the rightmost factor.
C1_InnermostRightmost ==
  Returned => ret = Bound(OuterFirst(Un, Len(Un[0][0]) - 1))

\* SetDomainN has returned the product over three domains with mixing
C1_Witness ==
  /\ Returned
  /\ Nd = Num(3)
  /\ cfg.g = Num(1)
  /\ ret.bound

\* C2 (as stated): with sens outside (0,1) or Rmax <= R_BLR, update_params
\* ends in an error; it never completes with Nd <= 0, and the multiplication
\* loop of SetDomainN is never reached with Nd <= 0.
InvalidConfig(c) ==
  \/ ~(FLess(Num(0), c.sens) /\ FLess(c.sens, Num(1)))
  \/ ~FLess(c.R_BLR, c.Rmax)

C2_InvalidConfigRejected ==
  /\ (last.op = "update_params" /\ InvalidConfig(cfg)) => last.exc # ""
  /\ (last.op = "update_params" /\ last.exc = "") => Nd.n >= 1
  /\ pc = "loop" => Nd.n >= 1

\* C3: when Nd = 1 the matrix SetDomainN returns is Un[:,:,0], entry for entry.
C3_SingleDomain ==
  (Returned /\ Nd = Num(1)) => ret = Bound(Slice(Un, 0))

\* SetDomainN has returned for a one-domain grid with mixing and Psi # 0
C3_Witness ==
  /\ Returned
  /\ Nd = Num(1)
  /\ ret.bound
  /\ cfg.g = Num(1)
  /\ cfg.Psi # ZeroAngle

\* C4: if g = 0, Dag = 0 in every domain and Dpar # Da in every domain, then
\* alph = 0 in every domain, every Un[k] is diagonal, and the matrix
\* SetDomainN returns has zeros at every off-diagonal position.
NoMixing ==
  /\ cfg.g = Num(0)
  /\ \A k \in 1..Len(Dag) : IsZero(Dag[k]) /\ Dpar[k] # Da[k]

C4_NoLeakage ==
  (InPass /\ NoMixing) =>
    /\ \A k \in 1..Len(alph) : alph[k] = ZeroAngle
    /\ \A ab \in OffDiagonal : \A k \in 1..Len(Lcoh) : Un[ab[1]][ab[2]][k] = CZero
    /\ Returned => \A ab \in OffDiagonal : ret.m[ab[1]][ab[2]] = CZero

\* SetDomainN has returned a two-domain product with g = 0, Psi # 0 and no
\* degenerate domain
C4_Witness ==
  /\ Returned
  /\ NoMixing
  /\ Nd = Num(2)
  /\ cfg.Psi # ZeroAngle
  /\ ret.bound

\* C5: the matrix SetDomainN returns is the one a new object holding the
\* current configuration values computes, whatever calls came before; so
\* equal configurations give equal matrices, and so do two calls in a row.
C5_Deterministic ==
  Returned => ret = Bound(InnerFirst(FreshUn(cfg), Len(UpdateOutcome(cfg).Lcoh) - 1))

\* SetDomainN has returned on an object whose Psi, g and Rmax were all
\* changed after construction
C5_Witness ==
  /\ Returned
  /\ ret.bound
  /\ cfg.Psi # Defaults.Psi
  /\ cfg.g # Defaults.g
  /\ cfg.Rmax # Defaults.Rmax
  /\ Nd.n >= 2

\* C6 (as stated): with Psi = 0 the loop of SetDomainN makes exactly Nd
\* passes and the returned U[0,0] is the product over the domains of
\* exp(i EW1[k] Lcoh[k]), of modulus 1.
C6_UnmixedPhase ==
  /\ (pc = "loop" /\ cfg.Psi = ZeroAngle) => i <= Nd.n
  /\ (Returned /\ cfg.Psi = ZeroAngle) =>
       /\ ret.m[0][0] = ProdTo(Phase(EW1, Lcoh), Nd.n)
       /\ CAbs2(ret.m[0][0]) = Num(1)

\* C7 (as the code has it): while SetDomainN runs, and after it has returned
\* until the next update_params, the nine stored mixing arrays are those
\* derived from the current configuration and have length Nd.
C7_FreshInPass ==
  InPass =>
    /\ StoredMix = FreshMix(cfg, UpdateOutcome(cfg))
    /\ \A f \in DOMAIN StoredMix : Len(StoredMix[f]) = Nd.n
    /\ attrs = DOMAIN StoredMix

\* C7 (as stated): in every reachable state, stored mixing arrays are those
\* derived from the current configuration and have the grid's length Nd.
C7_FreshAlways ==
  attrs # {} =>
    /\ IsNum(Nd)
    /\ \A f \in attrs : Len(StoredMix[f]) = Nd.n
    /\ Nd.n >= 0 => \A f \in attrs : StoredMix[f] = FreshMix(cfg, UpdateOutcome(cfg))[f]

\* SetDomainN has returned after update_params changed g on an object that
\* already held mixing arrays of the same length
C7_Witness ==
  /\ Returned
  /\ cfg.g = Num(0)
  /\ Nd = Num(2)
  /\ Len(Dag) = 2
  /\ \A k \in 1..2 : IsZero(Dag[k])

\* C8 (as stated): after update_params, r has Nd+1 entries and
\* r[i] = R_BLR * sens^(-i/p) for i = 0..Nd.
C8_RadiusGrid ==
  (last.op \in {"__init__", "update_params"} /\ last.exc = "") =>
    /\ Len(r) = Nd.n + 1
    /\ \A j \in 0..Nd.n :
         r[j + 1] = PwScale(cfg.R_BLR, Pw(Num(1), cfg.sens, FDiv(FNeg(Num(j)), Num(cfg.p))))

\* C9 (as the code has it): once SetDomainN has built the projectors,
\* T1[0,0] = cos(Psi)^2 in every domain, and the entries (0,1), (0,2) of T1,
\* T2, T3 and (0,0) of T2, T3 are zero in every domain.
C9_TopRow ==
  InPass =>
    \A k \in 1..Len(Psin) :
      /\ T1[0][0][k] = CReal(FMul(Cos(Psin[k]), Cos(Psin[k])))
      /\ T2[0][0][k] = CZero /\ T3[0][0][k] = CZero
      /\ \A b \in 1..2 : T1[0][b][k] = CZero /\ T2[0][b][k] = CZero /\ T3[0][b][k] = CZero

\* C9 (as stated): once SetDomainN has built the projectors, the entries
\* (0,0), (0,1), (0,2) of T1, T2 and T3 are zero in every domain.
C9_TopRowZero ==
  InPass =>
    \A k \in 1..Len(Psin) : \A b \in 0..2 :
      T1[0][b][k] = CZero /\ T2[0][b][k] = CZero /\ T3[0][b][k] = CZero

\* the projectors are built for two domains with mixing and Psi # 0
C9_Witness ==
  /\ pc = "loop"
  /\ Len(Psin) = 2
  /\ cfg.Psi # ZeroAngle
  /\ cfg.g = Num(1)
  /\ T2[1][2][1] # CZero

\* C10 (as stated): after every pass of the loop of SetDomainN the partial
\* product U is zero at (0,1), (0,2), (1,0), (2,0) and U[0,0] is the product
\* of Un[0,0,k] over the domains multiplied so far; so is the returned matrix.
Decoupled(M, n) ==
  /\ M[0][1] = CZero /\ M[0][2] = CZero /\ M[1][0] = CZero /\ M[2][0] = CZero
  /\ M[0][0] = ProdTo(Un[0][0], n)

C10_LoopInvariant ==
  /\ (pc = "loop" /\ U.bound) => Decoupled(U.m, i)
  /\ Returned => Decoupled(ret.m, Len(Un[0][0]))

====
